---- MODULE Spec2Model ----
(***************************************************************************)
(* A model of the Editor state controller of src/client/editor/Editor.js:  *)
(* the scene graph, the helper overlay, the geometry/material registry,    *)
(* the file-dependency tracker with its asynchronous scene loads, the      *)
(* component registry's two paths, duplication, and the command history.   *)
(*                                                                         *)
(* Every Editor method is a pure operator from an editor record (one field *)
(* per field of the Editor object) to the editor record after the call;    *)
(* an action applies one public method or one asynchronous completion and  *)
(* commits the record to the variables.                                    *)
(***************************************************************************)
EXTENDS Integers, Sequences, FiniteSets, TLC

\* ---------------------------------------------------------------- universe

Root == "scene"
Groups == {"g1", "g2", "g3"}
Lights == {"l1", "l2"}
Meshes == {"m1", "m2"}
Nodes == {Root} \cup Groups \cup Lights \cup Meshes

NoNode == "null"
Urls == {"u1", "u2"}
NoUrl == "undefined"
NoComp == "absent"
NoSrc == "nosrc"
NoHelper == [of |-> NoNode, root |-> NoNode, copy |-> 0]
NoList == [defined |-> FALSE, list |-> <<>>]

\* Names of generic (unregistered) component types and their props values.
GenericNames == {"x", "y"}
SceneReferenceName == "scene-reference"
RegisteredNames == {SceneReferenceName, "directional-light"}
ComponentNames == RegisteredNames \cup GenericNames
NoClass == [componentName |-> "undefined", id |-> "undefined"]
Builtin(n) == [componentName |-> n, id |-> "builtin"]
PropValues == {1, 2}

\* Bounds of the model.
MaxLoads == 2
MaxHelperCopies == 2
MaxComponents == 4
MaxGeneric == 2
MaxHistory == 3

\* ---------------------------------------------------------------- state

VARIABLES
    parent,            \* Object3D.parent of every node
    children,          \* Object3D.children of every node
    helpers,           \* this.helpers, keyed by node id
    sceneHelpers,      \* children of this.sceneHelpers (the overlay scene)
    geometries,        \* keys of this.geometries
    materials,         \* keys of this.materials
    fileDependencies,  \* this.fileDependencies: url -> Set in insertion order
    sceneRef,          \* the scene-reference component of a node: its src
    components,        \* userData._components of every node
    registry,          \* this.components: component name -> component class
    url,               \* this.scene.userData._url
    sceneReference,    \* userData._sceneReference of every node
    active,            \* this.signals.sceneGraphChanged.active
    selected,          \* this.selected
    history,           \* this.history: the commands and the cursor
    loads,             \* asynchronous loads awaiting the loader, in call order
    dup,               \* the position of a running duplicateObject call
    log,               \* notifications dispatched by the last operation
    last,              \* the last operation, its arguments and its pre-state
    snaps,             \* scene graph recorded at every history position
    observe            \* whether a listener records the notifications

vars == <<parent, children, helpers, sceneHelpers, geometries, materials,
          fileDependencies, sceneRef, components, url, sceneReference, active,
          selected, history, loads, dup, log, last, snaps, observe, registry>>

\* The editor as one record, and the record committed to the variables.
Cur ==
    [parent |-> parent, children |-> children, helpers |-> helpers,
     sceneHelpers |-> sceneHelpers, geometries |-> geometries,
     materials |-> materials, fileDependencies |-> fileDependencies,
     sceneRef |-> sceneRef, components |-> components, url |-> url,
     sceneReference |-> sceneReference, active |-> active,
     selected |-> selected, history |-> history, loads |-> loads,
     registry |-> registry, log |-> <<>>, observe |-> observe, ok |-> TRUE,
     error |-> FALSE]

Commit(t) ==
    /\ t.ok
    /\ parent' = t.parent
    /\ children' = t.children
    /\ helpers' = t.helpers
    /\ sceneHelpers' = t.sceneHelpers
    /\ geometries' = t.geometries
    /\ materials' = t.materials
    /\ fileDependencies' = t.fileDependencies
    /\ sceneRef' = t.sceneRef
    /\ components' = t.components
    /\ url' = t.url
    /\ sceneReference' = t.sceneReference
    /\ active' = t.active
    /\ selected' = t.selected
    /\ history' = t.history
    /\ loads' = t.loads
    /\ registry' = t.registry
    /\ log' = t.log
    /\ observe' = observe

\* ---------------------------------------------------------------- helpers

Range(q) == {q[i] : i \in 1..Len(q)}

Remove(q, x) == SelectSeq(q, LAMBDA y : y # x)

IndexOf(q, x) ==
    IF x \in Range(q) THEN CHOOSE i \in 1..Len(q) : q[i] = x /\ \A j \in 1..(i - 1) : q[j] # x
    ELSE 0

InsertAt(q, i, x) == SubSeq(q, 1, i - 1) \o <<x>> \o SubSeq(q, i, Len(q))

\* Object3D.traverse: the node, then each child's subtree, in order.
RECURSIVE traverse(_, _)
RECURSIVE traverseAll(_, _)
traverse(ch, n) == <<n>> \o traverseAll(ch, ch[n])
traverseAll(ch, q) ==
    IF q = <<>> THEN <<>> ELSE traverse(ch, Head(q)) \o traverseAll(ch, Tail(q))

Subtree(ch, n) == Range(traverse(ch, n))

\* The nodes attached to the live scene graph.
Attached(ch) == Subtree(ch, Root)

\* What a listener sees of the editor when a notification reaches it.
Snapshot(s) ==
    [parent |-> s.parent, children |-> s.children, helpers |-> s.helpers,
     sceneHelpers |-> s.sceneHelpers, geometries |-> s.geometries,
     materials |-> s.materials, fileDependencies |-> s.fileDependencies]

\* Signal.dispatch: a suppressed channel delivers nothing.
dispatch(s, sig, arg) ==
    IF ~s.observe \/ (sig = "sceneGraphChanged" /\ ~s.active) THEN s
    ELSE [s EXCEPT !.log = Append(@, [sig |-> sig, arg |-> arg, at |-> Snapshot(s)])]

\* Object3D.remove and Object3D.add of three.js.
remove(s, p, o) ==
    IF o \in Range(s.children[p])
    THEN [s EXCEPT !.parent[o] = NoNode, !.children[p] = Remove(@, o)]
    ELSE s

add(s, p, o) ==
    IF o = p THEN s
    ELSE LET s1 == IF s.parent[o] # NoNode THEN remove(s, s.parent[o], o) ELSE s
         IN [s1 EXCEPT !.parent[o] = p, !.children[p] = Append(@, o)]

\* ---------------------------------------------------------------- registry

HasGeometry(n) == n \in Meshes
Geometry(n) == "geoA"
Material(n) == IF n = "m1" THEN "matA" ELSE "matB"

addGeometry(s, geometry) == [s EXCEPT !.geometries = @ \cup {geometry}]

addMaterial(s, material) == [s EXCEPT !.materials = @ \cup {material}]

\* ---------------------------------------------------------------- helpers map

\* Cameras, lights and skinned meshes get a helper; the model's are lights.
HasHelperKind(n) == n \in Lights

FreeCopy(s, object, selectionRoot) ==
    LET used == {h.copy : h \in {g \in s.sceneHelpers :
                                   g.of = object /\ g.root = selectionRoot}}
    IN CHOOSE k \in 1..(MaxHelperCopies + 1) :
          k \notin used /\ \A j \in 1..(k - 1) : j \in used

addHelper(s, object, selectionRoot) ==
    IF s.helpers[object] # NoHelper THEN s
    ELSE IF ~HasHelperKind(object) THEN s
    ELSE LET k == FreeCopy(s, object, selectionRoot)
             helper == [of |-> object, root |-> selectionRoot, copy |-> k]
             s1 == [s EXCEPT !.sceneHelpers = @ \cup {helper},
                             !.helpers[selectionRoot] = helper,
                             !.ok = @ /\ k <= MaxHelperCopies]
         IN dispatch(s1, "helperAdded", helper)

removeHelper(s, object) ==
    IF s.helpers[object] # NoHelper
    THEN LET helper == s.helpers[object]
             s1 == [s EXCEPT !.sceneHelpers = @ \ {helper},
                             !.helpers[object] = NoHelper]
         IN dispatch(s1, "helperRemoved", helper)
    ELSE s

\* ---------------------------------------------------------------- dependency tracker

\* A JavaScript Set keeps insertion order: add appends a new member only.
SetAdd(q, x) == IF x \in Range(q) THEN q ELSE Append(q, x)

\* Map.get(key) of this.fileDependencies; an absent key reads as no dependents.
Dependents(s, key) == IF key \in Urls THEN s.fileDependencies[key] ELSE <<>>

\* getComponent(object, SceneReferenceComponent.componentName)
getSceneRefComponent(s, object) == s.sceneRef[object]

removeSceneRefDependency(s, object) ==
    LET sceneRefComponent == getSceneRefComponent(s, object)
    IN IF sceneRefComponent # NoComp /\ sceneRefComponent \in Urls
       THEN [s EXCEPT !.fileDependencies[sceneRefComponent] = Remove(@, object)]
       ELSE s

\* A call of the loader collaborator: the task waits in this.loads.
startLoad(s, task) ==
    [s EXCEPT !.loads = Append(@, task), !.ok = @ /\ Len(s.loads) < MaxLoads]

\* loadSceneReference up to its await.
loadSceneReference(s, u, p) ==
    startLoad(removeSceneRefDependency(s, p), [kind |-> "ref", url |-> u, parent |-> p])

\* Mutant: the result of a load is dropped when the parent's component no
\* longer has that src.
loadSceneReferenceResolved_Cancels(s, u, p, scene) ==
    IF s.sceneRef[p] # u THEN s
    ELSE LET s1 == [s EXCEPT !.sceneReference[scene] = u]
             s2 == add(s1, p, scene)
             s3 == dispatch(s2, "sceneGraphChanged", NoNode)
         IN [s3 EXCEPT !.fileDependencies[u] = SetAdd(@, p)]

\* loadSceneReference after its await, with the scene the loader produced.
loadSceneReferenceResolved(s, u, p, scene) ==
    LET s1 == [s EXCEPT !.sceneReference[scene] = u]
        s2 == add(s1, p, scene)
        s3 == dispatch(s2, "sceneGraphChanged", NoNode)
    IN [s3 EXCEPT !.fileDependencies[u] = SetAdd(@, p)]

\* ---------------------------------------------------------------- scene graph

RECURSIVE addVisit(_, _, _)
addVisit(s, order, object) ==
    IF order = <<>> THEN s
    ELSE LET child == Head(order)
             s1 == IF HasGeometry(child) THEN addGeometry(s, Geometry(child)) ELSE s
             s2 == IF HasGeometry(child) THEN addMaterial(s1, Material(child)) ELSE s1
         IN addVisit(addHelper(s2, child, object), Tail(order), object)

\* Mutant: "object added" is dispatched before the subtree is attached.
addObject_NotifiesFirst(s, object, p) ==
    LET s1 == addVisit(s, traverse(s.children, object), object)
        s2 == dispatch(s1, "objectAdded", object)
        s3 == IF p # NoNode THEN add(s2, p, object) ELSE add(s2, Root, object)
    IN dispatch(s3, "sceneGraphChanged", NoNode)

\* Mutant: "graph changed" is dispatched before "object added".
addObject_GraphChangedFirst(s, object, p) ==
    LET s1 == addVisit(s, traverse(s.children, object), object)
        s2 == IF p # NoNode THEN add(s1, p, object) ELSE add(s1, Root, object)
        s3 == dispatch(s2, "sceneGraphChanged", NoNode)
    IN dispatch(s3, "objectAdded", object)

addObject(s, object, p) ==
    LET s1 == addVisit(s, traverse(s.children, object), object)
        s2 == IF p # NoNode THEN add(s1, p, object) ELSE add(s1, Root, object)
        s3 == dispatch(s2, "objectAdded", object)
    IN dispatch(s3, "sceneGraphChanged", NoNode)

RECURSIVE removeVisit(_, _)
removeVisit(s, order) ==
    IF order = <<>> THEN s
    ELSE removeVisit(removeSceneRefDependency(removeHelper(s, Head(order)), Head(order)),
                     Tail(order))

\* Mutant: removeObject also drops the subtree's geometries and materials.
removeObject_Pruning(s, object) ==
    IF s.parent[object] = NoNode THEN s
    ELSE LET sub == Subtree(s.children, object)
             s1 == removeVisit(s, traverse(s.children, object))
             s2 == remove(s1, s1.parent[object], object)
             s3 == [s2 EXCEPT !.geometries = @ \ {Geometry(c) : c \in sub \cap Meshes},
                              !.materials = @ \ {Material(c) : c \in sub \cap Meshes}]
             s4 == dispatch(s3, "objectRemoved", object)
         IN dispatch(s4, "sceneGraphChanged", NoNode)

\* Mutant: removeObject cleans up the subtree but leaves it attached.
removeObject_KeepsAttached(s, object) ==
    IF s.parent[object] = NoNode THEN s
    ELSE LET s1 == removeVisit(s, traverse(s.children, object))
             s2 == dispatch(s1, "objectRemoved", object)
         IN dispatch(s2, "sceneGraphChanged", NoNode)

\* Mutant: removeObject cleans up and notifies for a node without a parent too.
removeObject_Unguarded(s, object) ==
    LET s1 == removeVisit(s, traverse(s.children, object))
        s2 == IF s.parent[object] # NoNode THEN remove(s1, s1.parent[object], object) ELSE s1
        s3 == dispatch(s2, "objectRemoved", object)
    IN dispatch(s3, "sceneGraphChanged", NoNode)

removeObject(s, object) ==
    IF s.parent[object] = NoNode THEN s
    ELSE LET s1 == removeVisit(s, traverse(s.children, object))
             s2 == remove(s1, s1.parent[object], object)
             s3 == dispatch(s2, "objectRemoved", object)
         IN dispatch(s3, "sceneGraphChanged", NoNode)

moveObject(s, object, p, before) ==
    LET target == IF p = NoNode THEN Root ELSE p
        s1 == add(s, target, object)
        s2 == IF before # NoNode
              THEN LET index == IndexOf(s1.children[target], before)
                       \* splice(-1, 0, x) inserts in front of the last element,
                       \* and at the start of an empty array
                       at == IF index # 0 THEN index
                             ELSE IF s1.children[target] = <<>> THEN 1
                             ELSE Len(s1.children[target])
                       spliced == InsertAt(s1.children[target], at, object)
                   IN [s1 EXCEPT !.children[target] = SubSeq(spliced, 1, Len(spliced) - 1)]
              ELSE s1
    IN dispatch(s2, "sceneGraphChanged", NoNode)

select(s, object) ==
    IF s.selected = object THEN s
    ELSE dispatch([s EXCEPT !.selected = object], "objectSelected", object)

deselect(s) == select(s, NoNode)

RECURSIVE removeChildren(_)
removeChildren(s) ==
    IF s.children[Root] = <<>> THEN s
    ELSE removeChildren(removeObject(s, s.children[Root][1]))

historyClear(s) == [s EXCEPT !.history = [cmds |-> <<>>, cursor |-> 0]]

clear(s) ==
    LET s1 == historyClear(s)
        s2 == removeChildren(s1)
        s3 == [s2 EXCEPT !.geometries = {}, !.materials = {}]
        s4 == deselect(s3)
    IN dispatch(s4, "editorCleared", NoNode)

RECURSIVE addChildrenOf(_, _)
addChildrenOf(s, scene) ==
    IF s.children[scene] = <<>> THEN s
    ELSE addChildrenOf(addObject(s, s.children[scene][1], NoNode), scene)

\* Mutant: setScene leaves the graph-changed channel as it is.
setScene_Unsuppressed(s, scene, sceneUrl) ==
    LET s1 == [s EXCEPT !.url = sceneUrl,
                        !.components[Root] = s.components[scene],
                        !.sceneReference[Root] = s.sceneReference[scene]]
        s2 == removeChildren(s1)
        s3 == addChildrenOf(s2, scene)
    IN dispatch(s3, "sceneSet", NoNode)

\* setScene(scene); sceneUrl is scene.userData._url.
setScene(s, scene, sceneUrl) ==
    LET s1 == [s EXCEPT !.url = sceneUrl,
                        !.components[Root] = s.components[scene],
                        !.sceneReference[Root] = s.sceneReference[scene],
                        !.active = FALSE]
        s2 == removeChildren(s1)
        s3 == addChildrenOf(s2, scene)
        s4 == [s3 EXCEPT !.active = TRUE]
    IN dispatch(s4, "sceneSet", NoNode)

\* loadScene up to its await.
loadScene(s, u) ==
    LET s1 == IF s.url \in Urls
              THEN [s EXCEPT !.fileDependencies[s.url] = Remove(@, Root)]
              ELSE s
        s2 == [s1 EXCEPT !.active = FALSE]
    IN startLoad(clear(s2), [kind |-> "scene", url |-> u, parent |-> NoNode])

\* loadScene after its await: the assignment to userData._url is overwritten
\* by setScene's copy of the loaded scene's userData.
loadSceneResolved(s, u, scene, sceneUrl) ==
    LET s1 == [s EXCEPT !.url = u]
        s2 == setScene(s1, scene, sceneUrl)
    IN [s2 EXCEPT !.fileDependencies[u] = SetAdd(@, Root)]

\* reloadScene up to its await.
reloadScene(s) == startLoad(s, [kind |-> "reload", url |-> s.url, parent |-> NoNode])

\* reloadScene after its await.
reloadSceneResolved(s, scene, sceneUrl) ==
    LET s1 == [s EXCEPT !.active = FALSE]
        s2 == clear(s1)
        s3 == [s2 EXCEPT !.active = TRUE]
    IN setScene(s3, scene, sceneUrl)

\* Mutant: the branch on the scene-reference component is inverted.
RECURSIVE fileChangedVisit_Inverted(_, _, _)
fileChangedVisit_Inverted(s, u, deps) ==
    IF deps = <<>> THEN s
    ELSE LET dependency == Head(deps)
             s1 == IF getSceneRefComponent(s, dependency) = NoComp
                   THEN loadSceneReference(s, u, dependency)
                   ELSE reloadScene(s)
         IN fileChangedVisit_Inverted(s1, u, Tail(deps))

\* onFileChanged: the dependents are visited in the Set's order.
RECURSIVE fileChangedVisit(_, _, _)
fileChangedVisit(s, u, deps) ==
    IF deps = <<>> THEN s
    ELSE LET dependency == Head(deps)
             s1 == IF getSceneRefComponent(s, dependency) # NoComp
                   THEN loadSceneReference(s, u, dependency)
                   ELSE reloadScene(s)
         IN fileChangedVisit(s1, u, Tail(deps))

onFileChanged(s, u) == fileChangedVisit(s, u, Dependents(s, u))

\* ---------------------------------------------------------------- components


\* this.components.has(componentName)
Registered(s, componentName) == s.registry[componentName] # NoClass

\* Mutant: a second registration replaces the class registered first.
registerComponent_Overwrites(s, componentClass) ==
    [s EXCEPT !.registry[componentClass.componentName] = componentClass]

\* registerComponent(componentClass); error stands for the Error thrown.
registerComponent(s, componentClass) ==
    IF Registered(s, componentClass.componentName)
    THEN [s EXCEPT !.error = TRUE]
    ELSE [s EXCEPT !.registry[componentClass.componentName] = componentClass]

\* SceneReferenceComponent.inflate(object, props): the component holds props.src.
inflate(s, object, props) == [s EXCEPT !.sceneRef[object] = props.src]

\* SceneReferenceComponent.deflate(object)
deflate(s, object) == [s EXCEPT !.sceneRef[object] = NoComp]

\* component.updateProperty("src", value)
updateProperty(s, object, value) == [s EXCEPT !.sceneRef[object] = value]

addComponent(s, object, componentName, props, skipSave) ==
    IF Registered(s, componentName)
    THEN IF componentName = SceneReferenceName
         THEN LET s1 == inflate(s, object, props)
              IN IF props.src # NoSrc THEN loadSceneReference(s1, props.src, object) ELSE s1
         ELSE s
    ELSE LET component == [name |-> componentName, props |-> props, shouldSave |-> ~skipSave]
             list == IF s.components[object].defined THEN s.components[object].list ELSE <<>>
         IN [s EXCEPT !.components[object] = [defined |-> TRUE, list |-> Append(list, component)]]

\* findIndex answers -1 when no record matches, and splice(-1, 1) removes the
\* last record.
removeComponent(s, object, componentName) ==
    IF Registered(s, componentName)
    THEN IF componentName = SceneReferenceName
         THEN deflate(removeSceneRefDependency(s, object), object)
         ELSE s
    ELSE IF ~s.components[object].defined THEN s
    ELSE LET list == s.components[object].list
             found == {i \in 1..Len(list) : list[i].name = componentName}
             index == IF found = {} THEN Len(list)
                      ELSE CHOOSE i \in found : \A j \in found : i <= j
         IN [s EXCEPT !.components[object].list =
                 SubSeq(list, 1, index - 1) \o SubSeq(list, index + 1, Len(list))]

\* updateComponentProperty(object, "scene-reference", "src", value)
updateComponentProperty(s, object, value) ==
    LET s1 == updateProperty(s, object, value)
    IN loadSceneReference(s1, value, object)

\* ---------------------------------------------------------------- actions

GraphOf(s) == [parent |-> s.parent, children |-> s.children]

NoPre == [parent |-> <<>>, children |-> <<>>, fileDependencies |-> <<>>,
          active |-> TRUE, geometries |-> {}, materials |-> {},
          sceneRef |-> <<>>, loads |-> <<>>]

\* The state in which an operation was called.
Pre(s) == [parent |-> s.parent, children |-> s.children,
           fileDependencies |-> s.fileDependencies, active |-> s.active,
           geometries |-> s.geometries, materials |-> s.materials,
           sceneRef |-> s.sceneRef, loads |-> s.loads]

\* The record of the last operation: always kept for the dependency tracker's
\* entry points (Mark, MarkFrom), kept for the others when a listener observes.
Mark(op, node, u) == [op |-> op, node |-> node, url |-> u, hasPre |-> FALSE, pre |-> NoPre]

MarkFrom(op, node, u, pre) == [op |-> op, node |-> node, url |-> u, hasPre |-> TRUE, pre |-> pre]

Did(op, node, u) == IF observe THEN Mark(op, node, u) ELSE Mark("other", NoNode, NoUrl)

DidFrom(op, node, u, pre) ==
    IF observe THEN MarkFrom(op, node, u, pre) ELSE Mark("other", NoNode, NoUrl)

Idle == [pc |-> "idle", stack |-> <<>>, object |-> NoNode, clone |-> NoNode]

\* One call of a public method: the handler runs to completion.
Do(t, l) ==
    /\ dup.pc = "idle"
    /\ Commit(t)
    /\ last' = l
    /\ snaps' = IF GraphOf(t) = GraphOf(Cur) /\ t.history = history THEN snaps ELSE <<>>
    /\ dup' = dup

InitWith(obs, shape) ==
    /\ parent = [n \in Nodes |-> IF \E g \in Groups : n \in Range(shape[g]) THEN
                                    CHOOSE g \in Groups : n \in Range(shape[g])
                                 ELSE NoNode]
    /\ children = [n \in Nodes |-> IF n \in Groups THEN shape[n] ELSE <<>>]
    /\ helpers = [n \in Nodes |-> NoHelper]
    /\ sceneHelpers = {}
    /\ geometries = {}
    /\ materials = {}
    /\ fileDependencies = [u \in Urls |-> <<>>]
    /\ sceneRef = [n \in Nodes |-> NoComp]
    /\ components = [n \in Nodes |-> NoList]
    /\ registry = [n \in ComponentNames |-> IF n \in RegisteredNames THEN Builtin(n) ELSE NoClass]
    /\ url = NoUrl
    /\ sceneReference = [n \in Nodes |-> NoUrl]
    /\ active = TRUE
    /\ selected = NoNode
    /\ history = [cmds |-> <<>>, cursor |-> 0]
    /\ loads = <<>>
    /\ dup = Idle
    /\ log = <<>>
    /\ last = Mark("new", NoNode, NoUrl)
    /\ snaps = <<[parent |-> parent, children |-> children]>>
    /\ observe = obs

\* The subtrees callers have built before handing them to the editor.
Flat == [g \in Groups |-> <<>>]

\* A node the editor holds no reference to.
Unreferenced(n) ==
    /\ helpers[n] = NoHelper
    /\ \A h \in sceneHelpers : h.of # n /\ h.root # n
    /\ \A u \in Urls : n \notin Range(fileDependencies[u])
    /\ sceneRef[n] = NoComp
    /\ ~components[n].defined
    /\ sceneReference[n] = NoUrl
    /\ selected # n
    /\ \A i \in 1..Len(loads) : loads[i].parent # n
    /\ \A i \in 1..Len(history.cmds) : history.cmds[i].object # n /\ history.cmds[i].parent # n

\* A scene the loader can produce: a new group with new nodes below it.
Loadable(scene) ==
    /\ scene \in Groups
    /\ parent[scene] = NoNode
    /\ \A n \in Subtree(children, scene) : Unreferenced(n)

AddObject(o, p) ==
    /\ o # Root /\ parent[o] = NoNode
    /\ p \in Nodes \cup {NoNode}
    /\ p \notin Subtree(children, o)
    /\ Do(addObject(Cur, o, p), DidFrom("addObject", o, NoUrl, Pre(Cur)))

\* A removeObject right after the addObject of the same subtree keeps the
\* state in which that addObject was called.
RemoveObject(o) ==
    /\ Do(removeObject(Cur, o),
          IF last.op = "addObject" /\ last.node = o
          THEN DidFrom("addObject;removeObject", o, NoUrl, last.pre)
          ELSE Did("removeObject", o, NoUrl))

Clear ==
    /\ dup.pc = "idle"
    /\ Commit(clear(Cur))
    /\ last' = Did("clear", NoNode, NoUrl)
    /\ snaps' = <<GraphOf(clear(Cur))>>
    /\ dup' = dup

SetScene(scene, sceneUrl) ==
    /\ scene # Root /\ parent[scene] = NoNode
    /\ Do(setScene(Cur, scene, sceneUrl), Did("setScene", scene, sceneUrl))

AddSceneReference(o, src) ==
    /\ sceneRef[o] = NoComp
    /\ Do(addComponent(Cur, o, SceneReferenceName, [src |-> src], FALSE),
          Did("addComponent", o, src))

UpdateSrc(o, value) ==
    /\ sceneRef[o] # NoComp
    /\ Do(updateComponentProperty(Cur, o, value), Did("updateComponentProperty", o, value))

RemoveSceneReference(o) ==
    /\ sceneRef[o] # NoComp
    /\ Do(removeComponent(Cur, o, SceneReferenceName), Did("removeComponent", o, NoUrl))

\* The three load entry points; track keeps the pre-call state for the caller
\* that awaits the outcome.
LoadScene(u, track) ==
    /\ Do(loadScene(Cur, u),
          IF track THEN MarkFrom("loadScene", NoNode, u, Pre(clear(Cur)))
          ELSE Did("loadScene", NoNode, u))

LoadSceneReference(u, p, track) ==
    /\ Do(loadSceneReference(Cur, u, p),
          IF track THEN MarkFrom("loadSceneReference", p, u, Pre(Cur))
          ELSE Did("loadSceneReference", p, u))

ReloadScene(track) ==
    /\ Do(reloadScene(Cur),
          IF track THEN MarkFrom("reloadScene", NoNode, url, Pre(Cur))
          ELSE Did("reloadScene", NoNode, url))

FileChanged(u) ==
    /\ Do(onFileChanged(Cur, u), MarkFrom("fileChanged", NoNode, u, Pre(Cur)))

Without(q, i) == SubSeq(q, 1, i - 1) \o SubSeq(q, i + 1, Len(q))

\* The loader resolves load i with a new scene whose userData._url is sceneUrl.
Resolve(i, scene, sceneUrl) ==
    /\ i \in 1..Len(loads)
    /\ Loadable(scene)
    /\ sceneUrl \in {NoUrl, loads[i].url}
    /\ LET task == loads[i]
           s == [Cur EXCEPT !.loads = Without(@, i)]
       IN CASE task.kind = "ref" ->
                 /\ sceneUrl = NoUrl
                 /\ Do(loadSceneReferenceResolved(s, task.url, task.parent, scene),
                       Did("resolved:ref", task.parent, task.url))
            [] task.kind = "scene" ->
                 Do(loadSceneResolved(s, task.url, scene, sceneUrl),
                    Did("resolved:scene", NoNode, task.url))
            [] task.kind = "reload" ->
                 Do(reloadSceneResolved(s, scene, sceneUrl),
                    Did("resolved:reload", NoNode, task.url))

\* The loader rejects load i: nothing after the await runs.
Reject(i) ==
    /\ i \in 1..Len(loads)
    /\ LET task == loads[i]
           mine == /\ last.hasPre
                   /\ i = Len(loads)
                   /\ last.op = (CASE task.kind = "ref" -> "loadSceneReference"
                                   [] task.kind = "scene" -> "loadScene"
                                   [] task.kind = "reload" -> "reloadScene")
       IN Do([Cur EXCEPT !.loads = Without(@, i)],
             IF mine THEN MarkFrom("rejected:" \o task.kind, last.node, last.url, last.pre)
             ELSE Did("rejected", NoNode, NoUrl))

\* ---------------------------------------------------------------- dependency tracking

Carriers == {"g1"}

\* New objects are interchangeable: the loader's scene is the first unused group.
FirstLoadable(pool) ==
    {g \in pool : Loadable(g) /\ \A h \in pool : (Loadable(h) /\ h # g) => IndexOf(<<"g1", "g2", "g3">>, g) < IndexOf(<<"g1", "g2", "g3">>, h)}

InitDeps == InitWith(FALSE, Flat)

NextDeps ==
    \/ \E o \in Carriers : AddObject(o, NoNode)
    \/ \E o \in Carriers : RemoveObject(o)
    \/ \E o \in Carriers, src \in Urls \cup {NoSrc} :
          parent[o] # NoNode /\ AddSceneReference(o, src)
    \/ \E o \in Carriers, value \in Urls : UpdateSrc(o, value)
    \/ \E o \in Carriers : RemoveSceneReference(o)
    \/ \E u \in Urls : LoadScene(u, FALSE)
    \/ \E u \in Urls : FileChanged(u)
    \/ \E i \in 1..MaxLoads, scene \in FirstLoadable(Groups \ Carriers) :
          Resolve(i, scene, IF loads[i].kind = "ref" THEN NoUrl ELSE loads[i].url)
    \/ \E i \in 1..MaxLoads : Reject(i)

SpecDeps == InitDeps /\ [][NextDeps]_vars

\* Number of loadSceneReference(u, n) calls awaiting the loader.
RefLoads(ls, u, n) ==
    Cardinality({i \in 1..Len(ls) : ls[i] = [kind |-> "ref", url |-> u, parent |-> n]})

ReloadLoads(ls) == Cardinality({i \in 1..Len(ls) : ls[i].kind = "reload"})

\* C1: the dependency tracker holds no stale entry: every node of
\* fileDependencies[U] is the live scene root whose recorded source url is U,
\* or a node attached to the scene graph whose scene-reference component has
\* src = U.
C1_NoStaleEntry ==
    \A u \in Urls : \A n \in Range(fileDependencies[u]) :
        \/ n = Root /\ url = u
        \/ n \in Attached(children) /\ sceneRef[n] = u

C3_DispatchBySrc ==
    last.op = "fileChanged" =>
        LET deps == Range(last.pre.fileDependencies[last.url])
            refs == {n \in deps : last.pre.sceneRef[n] = last.url}
        IN /\ \A n \in Nodes :
                 RefLoads(loads, last.url, n) =
                     RefLoads(last.pre.loads, last.url, n) + (IF n \in refs THEN 1 ELSE 0)
           /\ ReloadLoads(loads) = ReloadLoads(last.pre.loads) + Cardinality(deps \ refs)

\* ---------------------------------------------------------------- failing loads

InitFail == InitWith(FALSE, Flat)

NextFail ==
    \/ \E o \in Carriers : AddObject(o, NoNode)
    \/ \E o \in Carriers, src \in Urls :
          parent[o] # NoNode /\ AddSceneReference(o, src)
    \/ \E u \in Urls : LoadScene(u, TRUE)
    \/ \E u \in Urls, p \in Carriers : LoadSceneReference(u, p, TRUE)
    \/ ReloadScene(TRUE)
    \/ \E i \in 1..MaxLoads, scene \in FirstLoadable(Groups \ Carriers) :
          Resolve(i, scene, IF loads[i].kind = "ref" THEN NoUrl ELSE loads[i].url)
    \/ \E i \in 1..MaxLoads : Reject(i)

SpecFail == InitFail /\ [][NextFail]_vars

\* C9: when the loader rejects a load right after the call, no retry is
\* started and the editor is as before the call (loadSceneReference,
\* reloadScene: scene graph, dependency tracker, graph-changed channel) or
\* cleared (loadScene: no children, empty registry, empty history, no selection).
C9_RejectLeavesPreState ==
    /\ (last.hasPre /\ last.op \in {"rejected:ref", "rejected:reload"}) =>
          /\ loads = last.pre.loads
          /\ parent = last.pre.parent
          /\ children = last.pre.children
          /\ fileDependencies = last.pre.fileDependencies
          /\ active = last.pre.active
    /\ (last.hasPre /\ last.op = "rejected:scene") =>
          /\ loads = last.pre.loads
          /\ children[Root] = <<>>
          /\ geometries = {} /\ materials = {}
          /\ history.cmds = <<>> /\ selected = NoNode

\* ---------------------------------------------------------------- scene graph, helpers, registry

\* Subtrees built by the caller (a parser, the UI) before addObject or setScene.
Built == [g \in Groups |-> IF g = "g1" THEN <<"l1", "l2">> ELSE <<>>]

GraphPool == {"g1", "l1", "l2", "m1"}

InitGraph == \E shape \in {Flat, Built} : InitWith(TRUE, shape)

NextGraph ==
    \/ \E o \in GraphPool, p \in {NoNode, "g1"} :
          (p = NoNode \/ p \in Attached(children)) /\ AddObject(o, p)
    \/ \E o \in GraphPool \cup {Root} : RemoveObject(o)
    \/ Clear
    \/ \E scene \in GraphPool \cap Groups : SetScene(scene, NoUrl)

SpecGraph == InitGraph /\ [][NextGraph]_vars

\* C7: the helpers in the overlay scene are exactly the values of the helper
\* map, no node has more than one helper, and every helper belongs to a node
\* currently in the scene graph (so no helper of a removed subtree remains).
C7_HelpersExact ==
    /\ sceneHelpers = {helpers[n] : n \in Nodes} \ {NoHelper}
    /\ \A h, g \in sceneHelpers : h.of = g.of => h = g
    /\ \A h \in sceneHelpers : h.of \in Attached(children)

RegisteredBy(o) == Subtree(children, o) \cap Meshes

\* C8 (as claimed): addObject(subtree) followed immediately by
\* removeObject(subtree) leaves the geometry and material counts as they were
\* before the addObject call.
C8_CountsAsBeforeAdd ==
    last.op = "addObject;removeObject" =>
        /\ Cardinality(geometries) = Cardinality(last.pre.geometries)
        /\ Cardinality(materials) = Cardinality(last.pre.materials)

\* C8 (amended): after addObject(subtree); removeObject(subtree) the registry
\* holds what it held before the addObject call plus every geometry and
\* material of the subtree: removeObject frees nothing.
C8_RemoveKeepsRegistered ==
    last.op = "addObject;removeObject" =>
        /\ geometries = last.pre.geometries \cup {Geometry(c) : c \in RegisteredBy(last.node)}
        /\ materials = last.pre.materials \cup {Material(c) : c \in RegisteredBy(last.node)}

\* C8 witness: a subtree with a mesh was added and removed again, and the
\* registry is larger than before the addObject call.
C8_Witness ==
    /\ last.op = "addObject;removeObject"
    /\ parent[last.node] = NoNode
    /\ RegisteredBy(last.node) # {}
    /\ Cardinality(geometries) > Cardinality(last.pre.geometries)

\* ---------------------------------------------------------------- notifications

InitNotify == InitWith(TRUE, Built)

NextNotify ==
    \/ \E o \in {"g1", "m1"} : AddObject(o, NoNode)
    \/ \E o \in {"g1", "l1", "m1"} : RemoveObject(o)
    \/ \E o \in Carriers, src \in Urls :
          parent[o] # NoNode /\ AddSceneReference(o, src)
    \/ \E i \in 1..MaxLoads, scene \in FirstLoadable(Groups \ Carriers) :
          i <= Len(loads) /\ loads[i].kind = "ref" /\ Resolve(i, scene, NoUrl)

SpecNotify == InitNotify /\ [][NextNotify]_vars

Final == [parent |-> parent, children |-> children, helpers |-> helpers,
          sceneHelpers |-> sceneHelpers, geometries |-> geometries,
          materials |-> materials, fileDependencies |-> fileDependencies]

Reporting == {"addObject", "removeObject", "addObject;removeObject", "resolved:ref"}

\* C10 (as claimed): when objectAdded, objectRemoved, helperAdded,
\* helperRemoved or sceneGraphChanged fires, the scene graph, helper map,
\* registry store and dependency tracker hold the values they have when the
\* operation returns or resolves.
C10_NotifiedAtFinalState ==
    last.op \in Reporting =>
        \A i \in 1..Len(log) :
            log[i].sig \in {"objectAdded", "objectRemoved", "helperAdded",
                            "helperRemoved", "sceneGraphChanged"}
                => log[i].at = Final

\* C10 (amended): every notification fires after the change it reports.
\* objectAdded and objectRemoved fire at the operation's final state;
\* sceneGraphChanged fires when scene graph, helper map and registry are final
\* (loadSceneReference registers its dependency only afterwards); helperAdded
\* and helperRemoved fire during the traversal, once that helper is in (out
\* of) the overlay scene and the helper map.
C10_NotifiedAfterReportedChange ==
    last.op \in Reporting =>
        \A i \in 1..Len(log) :
            LET e == log[i] IN
            /\ e.sig \in {"objectAdded", "objectRemoved"} => e.at = Final
            /\ e.sig = "sceneGraphChanged" =>
                  /\ e.at.parent = parent /\ e.at.children = children
                  /\ e.at.helpers = helpers /\ e.at.sceneHelpers = sceneHelpers
                  /\ e.at.geometries = geometries /\ e.at.materials = materials
                  /\ last.op # "resolved:ref" => e.at.fileDependencies = fileDependencies
            /\ e.sig = "helperAdded" =>
                  e.arg \in e.at.sceneHelpers /\ e.at.helpers[e.arg.root] = e.arg
            /\ e.sig = "helperRemoved" =>
                  e.arg \notin e.at.sceneHelpers /\ \A n \in Nodes : e.at.helpers[n] # e.arg

\* C10 witness: loadSceneReference resolved and dispatched sceneGraphChanged
\* with the loaded scene attached, before the dependency was registered.
C10_Witness ==
    /\ last.op = "resolved:ref"
    /\ \E i \in 1..Len(log) :
          /\ log[i].sig = "sceneGraphChanged"
          /\ log[i].at.children = children
          /\ log[i].at.fileDependencies # fileDependencies

\* ---------------------------------------------------------------- commands and history

\* AddObjectCommand(object, parent) and RemoveObjectCommand(object); the latter
\* records the object's parent and its index among the parent's children.
AddObjectCommand(object, p) ==
    [type |-> "add", object |-> object, parent |-> p, index |-> 0]

RemoveObjectCommand(s, object) ==
    [type |-> "remove", object |-> object, parent |-> s.parent[object],
     index |-> IndexOf(s.children[s.parent[object]], object)]

\* command.execute()
cmdExecute(s, cmd) ==
    IF cmd.type = "add" THEN addObject(s, cmd.object, cmd.parent)
    ELSE removeObject(s, cmd.object)

\* command.undo(): an added object is removed; a removed object is put back
\* under its parent at its index.
cmdUndo(s, cmd) ==
    IF cmd.type = "add" THEN removeObject(s, cmd.object)
    ELSE LET s1 == addObject(s, cmd.object, cmd.parent)
         IN [s1 EXCEPT !.children[cmd.parent] =
                 InsertAt(Remove(@, cmd.object), cmd.index, cmd.object)]

\* History.execute, History.undo, History.redo
historyExecute(s, cmd) ==
    LET s1 == [s EXCEPT !.history.cmds = SubSeq(@, 1, s.history.cursor)]
        s2 == cmdExecute(s1, cmd)
        s3 == [s2 EXCEPT !.history.cmds = Append(@, cmd), !.history.cursor = @ + 1,
                         !.ok = @ /\ Len(s2.history.cmds) < MaxHistory]
    IN dispatch(s3, "historyChanged", NoNode)

historyUndo(s) ==
    IF s.history.cursor = 0 THEN s
    ELSE LET s1 == cmdUndo(s, s.history.cmds[s.history.cursor])
         IN dispatch([s1 EXCEPT !.history.cursor = @ - 1], "historyChanged", NoNode)

historyRedo(s) ==
    IF s.history.cursor = Len(s.history.cmds) THEN s
    ELSE LET s1 == cmdExecute(s, s.history.cmds[s.history.cursor + 1])
         IN dispatch([s1 EXCEPT !.history.cursor = @ + 1], "historyChanged", NoNode)

\* Mutant: the command is run and recorded at the cursor, and the commands
\* after the cursor are kept.
execute_KeepsRedoTail(s, cmd) ==
    LET s1 == cmdExecute(s, cmd)
    IN dispatch([s1 EXCEPT !.history.cmds = InsertAt(@, s.history.cursor + 1, cmd),
                           !.history.cursor = @ + 1,
                           !.ok = @ /\ Len(s.history.cmds) < MaxHistory],
                "historyChanged", NoNode)

\* Editor.execute, Editor.undo, Editor.redo
execute(s, cmd) == historyExecute(s, cmd)

undo(s) == historyUndo(s)

redo(s) == historyRedo(s)

deleteObject(s, object) == execute(s, RemoveObjectCommand(s, object))

\* The graph reached by a history operation is recorded at the new cursor.
HistorySnaps(t) ==
    IF snaps = <<>> THEN <<>>
    ELSE IF Len(snaps) > t.history.cursor /\ t.history.cmds = history.cmds THEN snaps
    ELSE SubSeq(snaps, 1, history.cursor + 1) \o <<GraphOf(t)>>

DoHistory(t, l) ==
    /\ dup.pc = "idle"
    /\ Commit(t)
    /\ last' = l
    /\ dup' = dup
    /\ snaps' = HistorySnaps(t)

ExecuteOp == IF history.cursor < Len(history.cmds) THEN "execute:discarding" ELSE "execute"

ExecuteAdd(o, p) ==
    /\ o # Root /\ parent[o] = NoNode
    /\ p = NoNode \/ (p \in Attached(children) /\ p # Root)
    /\ DoHistory(execute(Cur, AddObjectCommand(o, p)), Mark(ExecuteOp, NoNode, NoUrl))

DeleteObject(o) ==
    /\ parent[o] # NoNode
    /\ DoHistory(deleteObject(Cur, o), Mark(ExecuteOp, NoNode, NoUrl))

Undo == DoHistory(undo(Cur), Mark("undo", NoNode, NoUrl))

Redo ==
    DoHistory(redo(Cur),
              Mark(IF last.op = "execute:discarding" THEN "redo:discarded" ELSE "redo",
                   NoNode, NoUrl))

HistoryPool == {"g1", "l1", "m1"}

InitHistory == InitWith(TRUE, Flat)

NextHistory ==
    \/ \E o \in HistoryPool, p \in {NoNode, "g1"} : ExecuteAdd(o, p)
    \/ \E o \in HistoryPool : DeleteObject(o)
    \/ Undo
    \/ Redo

SpecHistory == InitHistory /\ [][NextHistory]_vars

\* C4: with N commands executed, the scene graph at every cursor position is
\* the one recorded when that position was first reached: N undos give the
\* initial graph, N redos afterwards the graph after the N executions.
C4_UndoRedoRestoreGraph ==
    snaps # <<>> =>
        /\ Len(snaps) = Len(history.cmds) + 1
        /\ [parent |-> parent, children |-> children] = snaps[history.cursor + 1]

\* C4 witness: at least two commands were executed and all were undone, back
\* to a graph that differs from the one after the executions.
C4_Witness ==
    /\ last.op = "undo"
    /\ history.cursor = 0
    /\ Len(history.cmds) >= 2
    /\ Len(snaps) = Len(history.cmds) + 1
    /\ snaps[1] # snaps[Len(snaps)]
    /\ \E i \in 1..Len(history.cmds) : history.cmds[i].type = "remove"

Unchanged ==
    /\ parent' = parent /\ children' = children /\ history' = history
    /\ helpers' = helpers /\ sceneHelpers' = sceneHelpers
    /\ geometries' = geometries /\ materials' = materials
    /\ log' = <<>>

\* C5: a redo right after an execute is a no-op, whatever was undone before
\* that execute; undo with nothing to undo and redo with nothing to redo are
\* no-ops: no command runs, cursor and scene graph stay as they are.
C5_RedoTailDiscarded ==
    [][ /\ (last'.op \in {"redo", "redo:discarded"}
              /\ (last.op \in {"execute", "execute:discarding"}
                    \/ history.cursor = Len(history.cmds))) => Unchanged
        /\ (last'.op = "undo" /\ history.cursor = 0) => Unchanged ]_vars

\* C5 witness: an execute discarded a redo tail and the redo after it did
\* nothing.
C5_Witness ==
    /\ last.op = "redo:discarded"
    /\ history.cursor = Len(history.cmds)
    /\ log = <<>>

\* ---------------------------------------------------------------- duplicate

Kind(n) == IF n \in Groups THEN Groups ELSE IF n \in Lights THEN Lights ELSE Meshes

Order == <<"g1", "g2", "g3", "l1", "l2", "m1", "m2">>

\* The nodes object.clone(false) can return: new nodes of the object's kind.
Fresh(object) ==
    {n \in Kind(object) :
        /\ parent[n] = NoNode /\ children[n] = <<>> /\ Unreferenced(n)
        /\ \A i \in 1..Len(dup.stack) : dup.stack[i].clone # n}

FirstFresh(object) ==
    CHOOSE n \in Fresh(object) : \A m \in Fresh(object) : IndexOf(Order, n) <= IndexOf(Order, m)

\* object.clone(false): a childless copy whose userData is a copy by value.
clone(s, object, copy) ==
    [s EXCEPT !.components[copy] = s.components[object],
              !.sceneReference[copy] = s.sceneReference[object]]

Frame(object, copy) == [object |-> object, clone |-> copy, i |-> 1, c |-> 1]

Top == dup.stack[Len(dup.stack)]

InComponents(f) == components[f.clone].defined /\ f.i <= Len(components[f.clone].list)

InChildren(f) == ~InComponents(f) /\ f.c <= Len(children[f.object])

\* duplicateObject(object): _cloneAndInflate is entered for the object.
DuplicateObject(o) ==
    /\ dup.pc = "idle"
    /\ parent[o] # NoNode
    /\ history.cursor < MaxHistory
    /\ \A n \in Subtree(children, o) :
          Cardinality(Fresh(n)) >= Cardinality(Subtree(children, o) \cap Kind(n))
    /\ Commit(clone(Cur, o, FirstFresh(o)))
    /\ dup' = [pc |-> "run", stack |-> <<Frame(o, FirstFresh(o))>>,
               object |-> o, clone |-> FirstFresh(o)]
    /\ last' = Mark("duplicating", o, NoUrl)
    /\ snaps' = snaps

\* One turn of the loop over clone.userData._components: the array iterator
\* reads the length again at every turn. The code goes on for as long as a
\* record is left; MaxComponents ends the exploration of a list that grows.
DupComponent ==
    /\ dup.pc = "run"
    /\ InComponents(Top)
    /\ Len(components[Top.clone].list) < MaxComponents
    /\ LET component == components[Top.clone].list[Top.i]
       IN Commit(addComponent(Cur, Top.clone, component.name, component.props, FALSE))
    /\ dup' = [dup EXCEPT !.stack[Len(dup.stack)].i = @ + 1]
    /\ UNCHANGED <<last, snaps>>

\* One turn of the loop over object.children: _cloneAndInflate is entered for
\* the child.
DupChild ==
    /\ dup.pc = "run"
    /\ InChildren(Top)
    /\ LET child == children[Top.object][Top.c]
       IN /\ Commit(clone(Cur, child, FirstFresh(child)))
          /\ dup' = [dup EXCEPT !.stack = Append(@, Frame(child, FirstFresh(child)))]
    /\ UNCHANGED <<last, snaps>>

\* _cloneAndInflate returns: a child's clone is added to its parent's clone,
\* the outermost clone is handed to an AddObjectCommand.
DupReturn ==
    /\ dup.pc = "run"
    /\ ~InComponents(Top) /\ ~InChildren(Top)
    /\ IF Len(dup.stack) > 1
       THEN /\ Commit(add(Cur, dup.stack[Len(dup.stack) - 1].clone, Top.clone))
            /\ dup' = [dup EXCEPT !.stack =
                         [SubSeq(@, 1, Len(@) - 1) EXCEPT ![Len(@) - 1].c = @ + 1]]
            /\ UNCHANGED <<last, snaps>>
       ELSE LET t == execute(Cur, AddObjectCommand(Top.clone, parent[Top.object]))
            IN /\ Commit(t)
               /\ dup' = [dup EXCEPT !.pc = "idle", !.stack = <<>>]
               /\ last' = Mark("duplicateObject", Top.clone, NoUrl)
               /\ snaps' = HistorySnaps(t)

AddGeneric(o, componentName, props, skipSave) ==
    /\ Len(components[o].list) < MaxGeneric
    /\ Do(addComponent(Cur, o, componentName, props, skipSave), Did("addComponent", o, NoUrl))

RemoveGeneric(o, componentName) ==
    Do(removeComponent(Cur, o, componentName), Did("removeComponent", o, componentName))

Originals == {"g1", "l1"}

Nested == [g \in Groups |-> IF g = "g1" THEN <<"l1">> ELSE <<>>]

InitDup == \E shape \in {Flat, Nested} : InitWith(FALSE, shape)

NextDup ==
    \/ AddObject("g1", NoNode)
    \/ \E o \in Originals, componentName \in GenericNames, v \in PropValues :
          AddGeneric(o, componentName, [value |-> v], FALSE)
    \/ \E o \in Originals, componentName \in GenericNames : RemoveGeneric(o, componentName)
    \/ \E o \in Originals : DuplicateObject(o)
    \/ DupComponent
    \/ DupChild
    \/ DupReturn

\* The call runs on: a started duplicateObject takes its next step.
SpecDup ==
    /\ InitDup /\ [][NextDup]_vars
    /\ WF_vars(DupComponent) /\ WF_vars(DupChild) /\ WF_vars(DupReturn)

SameComponents(a, b) ==
    /\ components[a].defined = components[b].defined
    /\ Len(components[a].list) = Len(components[b].list)
    /\ \A i \in 1..Len(components[a].list) :
          /\ components[a].list[i].name = components[b].list[i].name
          /\ components[a].list[i].props = components[b].list[i].props

\* C6 (as claimed): a started duplicateObject(nodeZ) returns, and the clone
\* then carries exactly the generic components of nodeZ, with equal props.
C6_DuplicateTerminatesWithK ==
    (dup.pc = "run") ~> (dup.pc = "idle" /\ last.op = "duplicateObject"
                            /\ SameComponents(dup.clone, dup.object))

\* ---------------------------------------------------------------- bulk replace

Signals(sig) == {i \in 1..Len(log) : log[i].sig = sig}

\* C11: setScene(source) ends with the root's children equal to the source's
\* former children in their order, every other former child of the root
\* detached, no "graph changed" notification, the graph-changed channel
\* active, and one "scene set" notification, dispatched last, when the
\* children are already replaced.
C11_SetSceneReplacesChildren ==
    [][ last'.op = "setScene" =>
          /\ children'[Root] = children[last'.node]
          /\ \A c \in Range(children[Root]) \ Range(children[last'.node]) :
                parent'[c] = NoNode
          /\ active'
          /\ \A i \in 1..Len(log') : log'[i].sig # "sceneGraphChanged"
          /\ Cardinality({i \in 1..Len(log') : log'[i].sig = "sceneSet"}) = 1
          /\ log'[Len(log')].sig = "sceneSet"
          /\ log'[Len(log')].at.children = children' ]_vars

\* C11 witness: setScene replaced former children of the root by the two
\* children of the source.
C11_Witness ==
    /\ last.op = "setScene"
    /\ Len(children[Root]) = 2
    /\ Signals("objectRemoved") # {}
    /\ Signals("objectAdded") # {}
    /\ Cardinality(Signals("sceneSet")) = 1

\* ---------------------------------------------------------------- guarded removal

InitGuard == InitWith(TRUE, Built)

NextGuard ==
    \/ AddObject("g1", NoNode)
    \/ \E o \in {Root, "g1", "l1"} : RemoveObject(o)
    \/ Clear
    \/ SetScene("g1", NoUrl)
    \/ \E src \in Urls : parent["g1"] # NoNode /\ AddSceneReference("g1", src)
    \/ \E i \in 1..MaxLoads, scene \in FirstLoadable(Groups \ Carriers) :
          i <= Len(loads) /\ loads[i].kind = "ref" /\ Resolve(i, scene, NoUrl)

SpecGuard == InitGuard /\ [][NextGuard]_vars

\* C12: removeObject(node) on a node without a parent changes neither the
\* scene graph nor the helper map, the overlay scene or the dependency
\* tracker, and dispatches nothing; the scene root never gets a parent.
C12_RemoveParentlessIsNoOp ==
    /\ [][ (last'.op = "removeObject" /\ parent[last'.node] = NoNode) =>
              /\ parent' = parent /\ children' = children
              /\ helpers' = helpers /\ sceneHelpers' = sceneHelpers
              /\ fileDependencies' = fileDependencies
              /\ log' = <<>> ]_vars
    /\ [](parent[Root] = NoNode)

\* C12 witness: removeObject was called on a detached node that is still
\* registered in the dependency tracker and still has a helper in the
\* overlay scene, and nothing was dispatched.
C12_Witness ==
    /\ last.op = "removeObject"
    /\ parent[last.node] = NoNode
    /\ log = <<>>
    /\ \E u \in Urls : last.node \in Range(fileDependencies[u])
    /\ \E h \in sceneHelpers : h.root = last.node

\* ---------------------------------------------------------------- reordering

\* n is in the scene: the parent references lead from n to the scene root.
RECURSIVE Climbs(_, _)
Climbs(n, k) ==
    IF n = Root THEN TRUE
    ELSE IF k = 0 \/ n = NoNode THEN FALSE
    ELSE Climbs(parent[n], k - 1)

InScene(n) == Climbs(n, Cardinality(Nodes))

Occurrences(q, x) == Cardinality({i \in 1..Len(q) : q[i] = x})

\* The Node invariant: a parent reference is matched by one entry in the
\* parent's children, and every entry by a parent reference.
Consistent ==
    \A n \in Nodes :
        /\ parent[n] # NoNode => Occurrences(children[parent[n]], n) = 1
        /\ \A q \in Nodes : Occurrences(children[q], n) > 0 => parent[n] = q

\* moveObject is called on a well-formed graph, for a node of the scene.
MoveObject(o, p, before) ==
    /\ Consistent
    /\ o # Root /\ InScene(o)
    /\ p = NoNode \/ InScene(p)
    /\ Do(moveObject(Cur, o, p, before),
          MarkFrom("moveObject", o, p, [before |-> before]))

MovePool == {"g1", "l1", "l2", "m1"}

InitMove == InitWith(TRUE, Built)

NextMove ==
    \/ \E o \in {"g1", "m1"} : AddObject(o, NoNode)
    \/ \E o \in MovePool, p \in MovePool \cup {NoNode}, before \in MovePool \cup {NoNode} :
          MoveObject(o, p, before)

SpecMove == InitMove /\ [][NextMove]_vars

\* C13: after moveObject(node, parent, before), for every node, parent and
\* before: node's parent is parent (the scene root when omitted), node occurs
\* once in parent's children and in no other children sequence, the other
\* children of parent keep their order, and node is immediately in front of
\* before when before is another child of parent.
C13_MovedUnderParent ==
    [][ last'.op = "moveObject" =>
          LET node == last'.node
              target == IF last'.url = NoNode THEN Root ELSE last'.url
              before == last'.pre.before
          IN /\ parent'[node] = target
             /\ Occurrences(children'[target], node) = 1
             /\ \A n \in Nodes \ {target} : Occurrences(children'[n], node) = 0
             /\ Remove(children'[target], node) = Remove(children[target], node)
             /\ (before \in Range(children[target]) /\ before # node) =>
                   \E i \in 1..(Len(children'[target]) - 1) :
                      children'[target][i] = node /\ children'[target][i + 1] = before ]_vars

\* ---------------------------------------------------------------- component registry

ClassIds == {"A", "B"}

RegisterComponent(componentClass) ==
    LET t == registerComponent(Cur, componentClass)
    IN Do(t, Mark(IF t.error THEN "registerComponent:threw" ELSE "registerComponent",
                  componentClass.componentName, componentClass.id))

InitRegistry == InitWith(TRUE, Flat)

NextRegistry ==
    \/ \E n \in ComponentNames, id \in ClassIds :
          RegisterComponent([componentName |-> n, id |-> id])
    \/ \E componentName \in GenericNames, v \in PropValues :
          AddGeneric("g1", componentName, [value |-> v], FALSE)
    \/ \E componentName \in GenericNames : RemoveGeneric("g1", componentName)

SpecRegistry == InitRegistry /\ [][NextRegistry]_vars

\* C14: registerComponent with a class whose componentName is already
\* registered throws and leaves the registry as it was: the name stays mapped
\* to the class registered first, no entry is added or removed.
C14_DuplicateRegistrationRejected ==
    [][ (last'.op \in {"registerComponent", "registerComponent:threw"}
            /\ registry[last'.node] # NoClass) =>
          /\ last'.op = "registerComponent:threw"
          /\ registry' = registry ]_vars

\* C14 witness: a second class was offered for a name registered after
\* construction; the call threw and the first class is still registered.
C14_Witness ==
    /\ last.op = "registerComponent:threw"
    /\ last.node \in GenericNames
    /\ registry[last.node].id # last.url
    /\ registry[last.node].componentName = last.node

\* The list without its first record named componentName.
WithoutFirst(list, componentName) ==
    IF \E i \in 1..Len(list) : list[i].name = componentName
    THEN LET first == CHOOSE i \in 1..Len(list) :
                         /\ list[i].name = componentName
                         /\ \A j \in 1..(i - 1) : list[j].name # componentName
         IN SubSeq(list, 1, first - 1) \o SubSeq(list, first + 1, Len(list))
    ELSE list

\* C19: removeComponent(node, typeName) for an unregistered typeName removes
\* the first record named typeName from the node's generic component list and
\* nothing else; the list is unchanged when no record has that name.
C19_RemovesFirstMatchOnly ==
    [][ (last'.op = "removeComponent" /\ registry[last'.url] = NoClass
            /\ components[last'.node].defined) =>
          components'[last'.node].list =
              WithoutFirst(components[last'.node].list, last'.url) ]_vars

\* ---------------------------------------------------------------- addObject

\* The "object added" and "graph changed" notifications of the last call.
GraphSignals ==
    SelectSeq(log, LAMBDA e : e.sig \in {"objectAdded", "sceneGraphChanged"})

\* C15: addObject(subtree), called with the graph-changed channel active,
\* dispatches one "object added" for the subtree's root and then one "graph
\* changed", whatever the size of the subtree, and the registry then holds
\* what it held plus the geometry and material of every node of the subtree.
C15_AddObjectNotifiesOnce ==
    (last.op = "addObject" /\ last.pre.active) =>
        /\ Len(GraphSignals) = 2
        /\ GraphSignals[1].sig = "objectAdded" /\ GraphSignals[1].arg = last.node
        /\ GraphSignals[2].sig = "sceneGraphChanged"
        /\ geometries = last.pre.geometries \cup {Geometry(c) : c \in RegisteredBy(last.node)}
        /\ materials = last.pre.materials \cup {Material(c) : c \in RegisteredBy(last.node)}

\* C15 witness: a subtree of four nodes with a mesh was added to an editor
\* with an empty registry; the geometry count is 1.
C15_Witness ==
    /\ last.op = "addObject"
    /\ last.pre.active
    /\ Cardinality(Subtree(children, last.node)) = 4
    /\ last.pre.geometries = {}
    /\ Cardinality(geometries) = 1
    /\ Len(log) > 2

\* ---------------------------------------------------------------- clear

\* C16: after clear() the scene root has no children, the helper map and
\* the overlay scene hold no helper of a removed node, no removed node is in
\* a dependency set, the geometry and material stores are empty, nothing is
\* selected, the history is empty, and one "editor cleared" notification
\* was dispatched, as the last effect.
C16_ClearLeavesNothing ==
    last.op = "clear" =>
        /\ children[Root] = <<>>
        /\ \A h \in sceneHelpers : h.of = Root
        /\ \A n \in Nodes : helpers[n] # NoHelper => helpers[n].of = Root
        /\ \A u \in Urls : Range(fileDependencies[u]) \subseteq {Root}
        /\ geometries = {} /\ materials = {}
        /\ selected = NoNode
        /\ history = [cmds |-> <<>>, cursor |-> 0]
        /\ Cardinality(Signals("editorCleared")) = 1
        /\ log[Len(log)].sig = "editorCleared"

\* ---------------------------------------------------------------- reference reload

InitReload == InitWith(TRUE, Flat)

\* One reference load at a time: a reload starts from a "resource changed"
\* notification, after the previous load has resolved.
NextReload ==
    \/ AddObject("g1", NoNode)
    \/ RemoveObject("g1")
    \/ \E src \in Urls : parent["g1"] # NoNode /\ AddSceneReference("g1", src)
    \/ \E u \in Urls : FileChanged(u)
    \/ \E i \in 1..MaxLoads, scene \in FirstLoadable(Groups \ Carriers) :
          i <= Len(loads) /\ loads[i].kind = "ref" /\ Resolve(i, scene, NoUrl)

SpecReload == InitReload /\ [][NextReload]_vars

\* The children of p that are loaded reference scenes.
References(ch, refs, p) == {c \in Range(ch[p]) : refs[c] # NoUrl}

\* C17: when loadSceneReference(U, p) resolves for a node p that already had
\* a loaded reference subtree, p then has one child tagged as a scene
\* reference, the newly loaded one, and the subtree loaded before is no
\* longer attached to p.
C17_ReloadReplacesInPlace ==
    [][ (last'.op = "resolved:ref"
            /\ References(children, sceneReference, last'.node) # {}) =>
          /\ Cardinality(References(children', sceneReference', last'.node)) = 1
          /\ \A c \in References(children, sceneReference, last'.node) :
                parent'[c] # last'.node ]_vars

\* ---------------------------------------------------------------- document load

InitLoad == InitWith(TRUE, Flat)

\* The loader is not part of the editor: the scene it produces carries the
\* url in its userData or does not.
NextLoad ==
    \/ \E o \in {"g1", "m1"} : AddObject(o, NoNode)
    \/ \E u \in Urls : LoadScene(u, FALSE)
    \/ \E i \in 1..MaxLoads, scene \in FirstLoadable(Groups \ Carriers), stamped \in BOOLEAN :
          i <= Len(loads) /\ loads[i].kind = "scene"
             /\ Resolve(i, scene, IF stamped THEN loads[i].url ELSE NoUrl)

SpecLoad == InitLoad /\ [][NextLoad]_vars

\* C18: after loadScene(url) resolves, the scene root records url as its
\* source url, the root is a dependent of url, and it is a dependent of no
\* other url, whatever was loaded before.
C18_RootDependsOnLoadedUrl ==
    last.op = "resolved:scene" =>
        /\ url = last.url
        /\ Root \in Range(fileDependencies[last.url])
        /\ \A u \in Urls \ {last.url} : Root \notin Range(fileDependencies[u])

\* ---------------------------------------------------------------- overlapping loads

InitOverlap == InitWith(TRUE, Flat)

NextOverlap ==
    \/ AddObject("g1", NoNode)
    \/ RemoveObject("g1")
    \/ \E src \in Urls : AddSceneReference("g1", src)
    \/ \E value \in Urls : UpdateSrc("g1", value)
    \/ \E i \in 1..MaxLoads, scene \in FirstLoadable(Groups \ Carriers) :
          i <= Len(loads) /\ loads[i].kind = "ref" /\ Resolve(i, scene, NoUrl)

SpecOverlap == InitOverlap /\ [][NextOverlap]_vars

\* The children of p loaded from u.
LoadedFrom(ch, refs, p, u) == {c \in Range(ch[p]) : refs[c] = u}

\* C20: when two loads for the same node p and different urls, in flight
\* together, resolve one after the other, p is a dependent of both urls and
\* has a subtree of each under it, the one that resolved first in front.
C20_BothLoadsApplied ==
    [][ (last.op = "resolved:ref" /\ last'.op = "resolved:ref"
            /\ last'.node = last.node /\ last'.url # last.url) =>
          LET p == last'.node IN
          /\ p \in Range(fileDependencies'[last.url])
          /\ p \in Range(fileDependencies'[last'.url])
          /\ \E c \in LoadedFrom(children', sceneReference', p, last.url),
                d \in LoadedFrom(children', sceneReference', p, last'.url) :
                IndexOf(children'[p], c) < IndexOf(children'[p], d) ]_vars

\* C20 witness: the load started second resolved first; both subtrees are
\* under p, the later call's in front, and p depends on both urls.
C20_Witness ==
    /\ last.op = "resolved:ref"
    /\ loads = <<>>
    /\ sceneRef[last.node] \in Urls /\ sceneRef[last.node] # last.url
    /\ last.node \in Range(fileDependencies[last.url])
    /\ last.node \in Range(fileDependencies[sceneRef[last.node]])
    /\ Len(children[last.node]) = 2
    /\ sceneReference[children[last.node][1]] = sceneRef[last.node]
    /\ sceneReference[children[last.node][2]] = last.url

\* ---------------------------------------------------------------- suppression

\* A loadScene or reloadScene call awaits the loader.
DocumentLoadInFlight == \E i \in 1..Len(loads) : loads[i].kind \in {"scene", "reload"}

\* C21: whenever no setScene, loadScene or reloadScene call is in progress,
\* every started load having resolved or been rejected, the graph-changed
\* channel is active.
C21_SuppressionIsTemporary == ~DocumentLoadInFlight => active

====
